---- MODULE Spec2Model ----
(***************************************************************************)
(* Fleet image distribution of m2deploy (pkg/ssh/distribute.go).           *)
(*                                                                         *)
(* Spec      one call of Distributor.DistributeToAllWorkers: the main      *)
(*           goroutine, one goroutine per worker, the semaphore channel,   *)
(*           the WaitGroup and the shared results slice.  Every remote     *)
(*           operation of DistributeToWorker is one step of a task; what   *)
(*           the remote side answers is drawn from the *Outcomes sets.     *)
(* FairSpec  Spec with weak fairness on every step (the Go scheduler runs  *)
(*           every runnable goroutine).                                    *)
(* ChanSpec  one call of scpToWorker or of sshExec, step by step.          *)
(* DeploySpec  runDeploy (cmd/deploy.go) with TestConnectivity; a node     *)
(*           task of DistributeToAllWorkers is seen through its result.    *)
(* NodeSpec  DistributeToWorker on one worker, call after call, with the   *)
(*           worker's image listing and remote archive.                    *)
(* FairChanSpec  ChanSpec with weak fairness on the goroutine's steps, the *)
(*           deadline and the caller's select.                             *)
(* RetrySpec retry.WithRetry.                                              *)
(* DiscoverySpec  Distributor.GetWorkerNodes with k8s Client.GetWorkerIPs  *)
(*           over the node list the cluster answers with.                  *)
(*                                                                         *)
(* The integer flags are modelled over the naturals: a negative Parallel   *)
(* panics in make(chan) before any task starts and a negative RetryCount   *)
(* runs the retry loop zero times, as RetryCount = 0 does.                 *)
(***************************************************************************)
EXTENDS Integers, Sequences, FiniteSets, TLC

\* ------------------------------------------------------------------ bounds
MaxWorkers == 2
MaxParallel == 2
MaxRetryCount == 2
MaxSize == 1
\* most calls of DistributeToWorker one run can make: len(workers) * RetryCount
MaxAttempts == 4
\* DistributeToWorker calls made on one worker, over all DistributeToAllWorkers calls
MaxCalls == 3
\* largest Options.MaxRetries
MaxMaxRetries == 3
\* most nodes in the cluster's node list
MaxClusterNodes == 2

\* ------------------------------------------------------------------ state
VARIABLES
    Parallel,       \* Distributor.Parallel
    RetryCount,     \* Distributor.RetryCount
    MinWorkers,     \* Distributor.MinWorkers
    KeepTarballs,   \* Distributor.KeepTarballs
    localSize,      \* size of the local tarball as reported by os.Stat
    workers,        \* the workers argument: a sequence of node identities
    mainpc,         \* position of the caller of DistributeToAllWorkers
    spawned,        \* loop index of the spawning loop: goroutines started so far
    wg,             \* sync.WaitGroup counter
    sem,            \* len(sem): elements held in the semaphore channel
    pc,             \* position of each node goroutine
    attempt,        \* loop variable attempt of each node goroutine
    lastErr,        \* variable lastErr of each node goroutine
    results,        \* the results slice
    retErr,         \* the error DistributeToAllWorkers returned
    report,         \* the Warning/Success line logged before returning nil
    calls,          \* history: number of DistributeToWorker calls per node
    issued,         \* history: remote operations issued by the latest attempt
    op,             \* ChanSpec: the function called, "scp" or "exec"
    cpc,            \* position of the scpToWorker frame
    epc,            \* position of the sshExecWithContext frame
    gpc,            \* position of the goroutine started by sshExecWithContext
    timer,          \* the context deadline of sshExec: off, armed or fired
    remote,         \* whether the remote process answers the running command
    clients,        \* SSH client connections open
    sessions,       \* SSH sessions open
    done,           \* contents of the channel done (capacity 1)
    output,         \* variable output of sshExecWithContext
    cerr,           \* variable err of sshExecWithContext, shared with the goroutine
    execRet,        \* what the sshExec call returned
    ret,            \* what the called function returned
    killed,         \* whether SIGKILL was sent to the remote process
    overdue,        \* history: the deadline passed before the command had returned
    dpc,            \* DeploySpec: position of runDeploy
    skipImport,     \* the --skip-import flag (deploySkipImport)
    Reachable,      \* WorkerNode.Reachable of each worker
    LastError,      \* WorkerNode.LastError of each worker
    probed,         \* TestConnectivity: workers the loop has gone through
    failures,       \* TestConnectivity: the failures slice
    tcErr,          \* what TestConnectivity returned
    probeLog,       \* history: the probes made, with their outcomes
    comp,           \* runDeploy: index of the component the loop is at
    exported,       \* history: components whose image SaveImage exported
    distCalls,      \* history: number of DistributeToAllWorkers invocations
    tasks,          \* runDeploy's view of the node tasks of the running call
    auditIdx,       \* audit loop: workers verified for the current component
    audited,        \* audit: per component, the workers whose verification passed
    applied,        \* history: DeployWithOptions was invoked
    deployRet,      \* what runDeploy returned
    npc,            \* NodeSpec: position inside DistributeToWorker
    images,         \* NodeSpec: image references in the worker's containerd
    tarball,        \* NodeSpec: state of the remote temporary archive
    ncalls,         \* NodeSpec: DistributeToWorker calls made on the worker
    nok,            \* NodeSpec history: a call on the worker has succeeded
    nres,           \* NodeSpec: the result of the latest call on the worker
    MaxRetries,     \* RetrySpec: Options.MaxRetries
    rpc,            \* RetrySpec: position inside WithRetry
    rattempt,       \* RetrySpec: loop variable attempt
    rlastErr,       \* RetrySpec: variable lastErr
    rlog,           \* RetrySpec history: outcome of each invocation of operation
    rret,           \* RetrySpec: what WithRetry returned
    WorkerIPs,      \* DiscoverySpec: Distributor.WorkerIPs (the --workers list)
    cluster,        \* the items of the node list kubectl answers with
    wpc,            \* position inside GetWorkerNodes
    kubectl,        \* history: how the "kubectl get nodes" run ended, "none" if not run
    ipsRet,         \* what GetWorkerIPs returned
    found           \* what GetWorkerNodes returned

vars == <<Parallel, RetryCount, MinWorkers, KeepTarballs, localSize, workers,
          mainpc, spawned, wg, sem, pc, attempt, lastErr, results, retErr,
          report, calls, issued, op, cpc, epc, gpc, timer, remote, clients,
          sessions, done, output, cerr, execRet, ret, killed, overdue,
          dpc, skipImport, Reachable, LastError, probed, failures, tcErr,
          probeLog, comp, exported, distCalls, tasks, auditIdx, audited,
          applied, deployRet, npc, images, tarball, ncalls, nok, nres,
          MaxRetries,
          rpc, rattempt, rlastErr, rlog, rret,
          WorkerIPs, cluster, wpc, kubectl, ipsRet, found>>

chanVars == <<op, cpc, epc, gpc, timer, remote, clients, sessions, done, output,
              cerr, execRet, ret, killed, overdue>>

fleetVars == <<Parallel, RetryCount, MinWorkers, KeepTarballs, workers, mainpc,
               spawned, wg, sem, pc, attempt, lastErr, results, retErr, report,
               calls, issued>>

policy == <<Parallel, RetryCount, MinWorkers, KeepTarballs, localSize, workers>>

callVars == <<mainpc, spawned, wg, sem, pc, attempt, lastErr, results, retErr,
              report, calls, issued>>

deployVars == <<dpc, skipImport, Reachable, LastError, probed, failures, tcErr,
                probeLog, comp, exported, distCalls, tasks, auditIdx, audited,
                applied, deployRet>>

nodeVars == <<npc, images, tarball, ncalls, nok, nres>>

retryVars == <<MaxRetries, rpc, rattempt, rlastErr, rlog, rret>>

discoveryVars == <<WorkerIPs, cluster, wpc, kubectl, ipsRet, found>>

\* Everything outside DistributeToAllWorkers and the remote channel.
restVars == <<deployVars, nodeVars, retryVars, discoveryVars>>

\* ------------------------------------------------------------------ values
\* A Go error value: nil, or the innermost message (cause) together with the
\* step annotation DistributeToWorker wraps around it ("none" when unwrapped).
Nil == [annot |-> "none", cause |-> "nil"]

RawErr(c) == [annot |-> "none", cause |-> c]

Annotate(a, e) == [annot |-> a, cause |-> e.cause]

\* A nil *DistributionResult (the zero value make() fills the slice with).
NoResult == [present |-> FALSE, Worker |-> 0, Success |-> FALSE, Error |-> Nil]

DistributionResult(w, ok, e) ==
    [present |-> TRUE, Worker |-> w, Success |-> ok, Error |-> e]

Nodes == 1..Len(workers)

\* ------------------------------------------------------------------ remote channel
\* What the combined output of a remote command can be: a decimal number or
\* any other text (empty output, a banner, an error message).
Outputs == [kind : {"num"}, val : 0..MaxSize] \cup {[kind |-> "text", val |-> 0]}

\* strconv.ParseInt(strings.TrimSpace(output), 10, 64) with its error dropped:
\* the parsed number, or 0 when the text is not a number.
ParseInt(out) == IF out.kind = "num" THEN out.val ELSE 0

\* The outcome of one sshExec call: the command's output with a nil error, a
\* failed command, a timeout, or a connection that could not be opened.
ExecOutcomes ==
    [status : {"ok"}, out : Outputs]
        \cup {[status |-> s, out |-> [kind |-> "text", val |-> 0]] :
                 s \in {"failed", "timeout", "dial"}}

ExecFailed(o) == o.status # "ok"

\* No sshExec call was made.
NoExec == [status |-> "none", out |-> [kind |-> "text", val |-> 0]]

\* What the environment does to one scpToWorker call: each phase succeeds or
\* ends the call; a phase after the one that ended it is "none".
ScpOutcomes ==
    {[local |-> "fail", conn |-> "none", stream |-> "none", check |-> NoExec]}
        \cup {[local |-> "ok", conn |-> "fail", stream |-> "none", check |-> NoExec]}
        \cup {[local |-> "ok", conn |-> "ok", stream |-> s, check |-> NoExec] :
                 s \in {"fail", "silent"}}
        \cup {[local |-> "ok", conn |-> "ok", stream |-> "ok", check |-> c] :
                 c \in ExecOutcomes}

\* The size comparison at the end of scpToWorker.
SizeCheck(size, out) ==
    IF ParseInt(out) # size THEN RawErr("size mismatch") ELSE Nil

\* scpToWorker: the error it returns, the remote operations it issued, and
\* whether it never returns (session.Wait has no deadline).
scpToWorker(size, env) ==
    IF env.local = "fail"
    THEN [err |-> RawErr("cannot read local file"), ops |-> <<>>, blocks |-> FALSE]
    ELSE IF env.conn = "fail"
    THEN [err |-> RawErr("SSH connection failed"), ops |-> <<>>, blocks |-> FALSE]
    ELSE IF env.stream = "fail"
    THEN [err |-> RawErr("SCP session failed"),
          ops |-> <<[op |-> "transfer", ok |-> FALSE]>>, blocks |-> FALSE]
    ELSE IF env.stream = "silent"
    THEN [err |-> Nil,
          ops |-> <<[op |-> "transfer", ok |-> FALSE]>>, blocks |-> TRUE]
    ELSE IF ExecFailed(env.check)
    THEN [err |-> RawErr("cannot verify remote file"),
          ops |-> <<[op |-> "transfer", ok |-> TRUE],
                    [op |-> "sizecheck", ok |-> FALSE]>>, blocks |-> FALSE]
    ELSE [err |-> SizeCheck(size, env.check.out),
          ops |-> <<[op |-> "transfer", ok |-> TRUE],
                    [op |-> "sizecheck",
                     ok |-> SizeCheck(size, env.check.out) = Nil]>>,
          blocks |-> FALSE]

\* importOnWorker: the remote import command and its error classification.
ImportOutcomes == {"ok", "no space left", "permission denied",
                   "connection refused", "other"}

importOnWorker(o) ==
    CASE o = "ok" -> Nil
      [] o = "no space left" -> RawErr("disk full on worker")
      [] o = "permission denied" -> RawErr("sudo access required for ctr command")
      [] o = "connection refused" -> RawErr("containerd not running on worker")
      [] OTHER -> RawErr("import command failed")

\* VerifyImportOnWorker: the listing fails, lists the image, or does not.
VerifyOutcomes == {"listed", "missing", "failed"}

VerifyImportOnWorker(o) ==
    CASE o = "listed" -> Nil
      [] o = "missing" -> RawErr("image not found in containerd")
      [] OTHER -> RawErr("failed to list images")

\* CleanupOnWorker: rm -f of the remote tarball.
CleanupOutcomes == {"ok", "failed"}

CleanupOnWorker(o) == IF o = "ok" THEN Nil ELSE RawErr("command failed")

\* No output: string(nil) is the empty text.
NoOutput == [kind |-> "text", val |-> 0]

\* The return value of a call that has not returned.
NoReturn == [called |-> FALSE, out |-> NoOutput, err |-> Nil]

Returns(o, e) == [called |-> TRUE, out |-> o, err |-> e]

\* The channel state before any call.
ChanIdle ==
    /\ op = "none"
    /\ cpc = "none"
    /\ epc = "none"
    /\ gpc = "none"
    /\ timer = "off"
    /\ remote = "none"
    /\ clients = 0
    /\ sessions = 0
    /\ done = <<>>
    /\ output = NoOutput
    /\ cerr = Nil
    /\ execRet = NoReturn
    /\ ret = NoReturn
    /\ killed = FALSE
    /\ overdue = FALSE

\* TestConnectivity has not returned.
NoVerdict == [called |-> FALSE, unreachable |-> <<>>]

\* The two components runDeploy distributes: backend, frontend.
Components == 1..2

\* The state of runDeploy before it is called; the WorkerNode fields hold the
\* zero values GetWorkerNodes creates them with.
DeployIdle ==
    /\ dpc = "off"
    /\ skipImport = FALSE
    /\ Reachable = [i \in Nodes |-> FALSE]
    /\ LastError = [i \in Nodes |-> Nil]
    /\ probed = 0
    /\ failures = <<>>
    /\ tcErr = NoVerdict
    /\ probeLog = <<>>
    /\ comp = 0
    /\ exported = {}
    /\ distCalls = 0
    /\ tasks = [i \in Nodes |-> "idle"]
    /\ auditIdx = 0
    /\ audited = [c \in Components |-> {}]
    /\ applied = FALSE
    /\ deployRet = "none"

\* No DistributeToWorker call on the single worker of NodeSpec.
NodeIdle ==
    /\ npc = "off"
    /\ images = {}
    /\ tarball = "absent"
    /\ ncalls = 0
    /\ nok = FALSE
    /\ nres = NoResult

\* No WithRetry call.
RetryIdle ==
    /\ MaxRetries = 0
    /\ rpc = "off"
    /\ rattempt = 0
    /\ rlastErr = "nil"
    /\ rlog = <<>>
    /\ rret = [called |-> FALSE, nil |-> TRUE, cause |-> "nil"]

\* No GetWorkerNodes call.
DiscoveryIdle ==
    /\ WorkerIPs = <<>>
    /\ cluster = <<>>
    /\ wpc = "off"
    /\ kubectl = "none"
    /\ ipsRet = [called |-> FALSE, ips |-> <<>>, err |-> Nil]
    /\ found = [called |-> FALSE, workers |-> <<>>, err |-> Nil]

\* No DistributeToAllWorkers call.
CallIdle ==
    /\ mainpc = "idle"
    /\ spawned = 0
    /\ wg = 0
    /\ sem = 0
    /\ pc = [i \in Nodes |-> "idle"]
    /\ attempt = [i \in Nodes |-> 0]
    /\ lastErr = [i \in Nodes |-> Nil]
    /\ results = <<>>
    /\ retErr = "none"
    /\ report = "none"
    /\ calls = [i \in Nodes |-> 0]
    /\ issued = [i \in Nodes |-> <<>>]

\* ------------------------------------------------------------------ DistributeToAllWorkers
Init ==
    /\ Parallel \in 0..MaxParallel
    /\ RetryCount \in 0..MaxRetryCount
    /\ \E n \in 0..MaxWorkers :
          /\ n * RetryCount <= MaxAttempts
          /\ workers = [i \in 1..n |-> i]
          /\ MinWorkers \in 0..(n + 1)
    /\ KeepTarballs \in BOOLEAN
    /\ localSize \in 0..MaxSize
    /\ mainpc = "idle"
    /\ spawned = 0
    /\ wg = 0
    /\ sem = 0
    /\ pc = [i \in Nodes |-> "idle"]
    /\ attempt = [i \in Nodes |-> 0]
    /\ lastErr = [i \in Nodes |-> Nil]
    /\ results = <<>>
    /\ retErr = "none"
    /\ report = "none"
    /\ calls = [i \in Nodes |-> 0]
    /\ issued = [i \in Nodes |-> <<>>]
    /\ ChanIdle
    /\ DeployIdle
    /\ NodeIdle
    /\ RetryIdle
    /\ DiscoveryIdle

\* results := make([]*DistributionResult, len(workers)); sem := make(chan, Parallel)
Call ==
    /\ mainpc = "idle"
    /\ mainpc' = "spawning"
    /\ results' = [i \in Nodes |-> NoResult]
    /\ sem' = 0
    /\ UNCHANGED <<policy, chanVars, restVars, spawned, wg, pc, attempt, lastErr, retErr, report,
                   calls, issued>>

\* One iteration of "for i, worker := range workers": wg.Add(1); go func(i, worker)
Spawn ==
    /\ mainpc = "spawning"
    /\ spawned < Len(workers)
    /\ spawned' = spawned + 1
    /\ wg' = wg + 1
    /\ pc' = [pc EXCEPT ![spawned + 1] = "acquire"]
    /\ UNCHANGED <<policy, chanVars, restVars, mainpc, sem, attempt, lastErr, results, retErr,
                   report, calls, issued>>

\* Variant: every goroutine shares one index (a captured loop variable).
ResultSlotShared(idx) == 1

\* The slot of results a task writes: its idx parameter.
ResultSlot(idx) == idx

\* A failing return of DistributeToWorker: a result whose Error wraps the
\* cause with the step that failed, and beside it the unwrapped cause.
Failure(w, step, e) ==
    [result |-> DistributionResult(w, FALSE, Annotate(step, e)), err |-> e]

\* "All retries failed": the record written after the loop.  The result that
\* DistributeToWorker returned with the error is dropped; only err is kept.
FailureRecord(w, e) == DistributionResult(w, FALSE, e)

\* Variant: the goroutine returns without giving its slot back.
FinishKeepsSlot(n, r, held) ==
    /\ results' = [results EXCEPT ![ResultSlot(n)] = r]
    /\ pc' = [pc EXCEPT ![n] = "done"]
    /\ sem' = held
    /\ wg' = wg - 1
    /\ attempt' = [attempt EXCEPT ![n] = 0]
    /\ lastErr' = [lastErr EXCEPT ![n] = Nil]

\* The goroutine returns after writing r to its slot: the deferred <-sem and
\* wg.Done() run (neither can block: the goroutine's own element is in sem),
\* and its locals attempt and lastErr cease to exist.
Finish(n, r, held) ==
    /\ results' = [results EXCEPT ![ResultSlot(n)] = r]
    /\ pc' = [pc EXCEPT ![n] = "done"]
    /\ sem' = held - 1
    /\ wg' = wg - 1
    /\ attempt' = [attempt EXCEPT ![n] = 0]
    /\ lastErr' = [lastErr EXCEPT ![n] = Nil]

\* The goroutine goes on to position p, keeping its slot.
Goto(n, p) ==
    /\ pc' = [pc EXCEPT ![n] = p]
    /\ UNCHANGED <<results, sem, wg>>

\* Variant: the loop condition is attempt < RetryCount.
IterateOneFewer(n, a, e, held) ==
    IF a < RetryCount
    THEN /\ attempt' = [attempt EXCEPT ![n] = a]
         /\ lastErr' = [lastErr EXCEPT ![n] = e]
         /\ pc' = [pc EXCEPT ![n] = IF a > 1 THEN "sleep" ELSE "transfer"]
         /\ sem' = held
         /\ UNCHANGED <<results, wg>>
    ELSE Finish(n, FailureRecord(workers[n], e), held)

\* Variant: a retry starts at once, without the delay.
IterateNoDelay(n, a, e, held) ==
    IF a <= RetryCount
    THEN /\ attempt' = [attempt EXCEPT ![n] = a]
         /\ lastErr' = [lastErr EXCEPT ![n] = e]
         /\ pc' = [pc EXCEPT ![n] = "transfer"]
         /\ sem' = held
         /\ UNCHANGED <<results, wg>>
    ELSE Finish(n, FailureRecord(workers[n], e), held)

\* Variant: every failed attempt is written to the slot as it happens.
IterateRecordEach(n, a, e, held) ==
    IF a <= RetryCount
    THEN /\ attempt' = [attempt EXCEPT ![n] = a]
         /\ lastErr' = [lastErr EXCEPT ![n] = e]
         /\ pc' = [pc EXCEPT ![n] = IF a > 1 THEN "sleep" ELSE "transfer"]
         /\ sem' = held
         /\ results' = [results EXCEPT ![ResultSlot(n)] =
                            IF e = Nil THEN @ ELSE FailureRecord(workers[n], e)]
         /\ UNCHANGED wg
    ELSE Finish(n, FailureRecord(workers[n], e), held)

\* The head of the retry loop, reached with attempt = a, lastErr = e and held
\* elements in sem: the next attempt (after the delay when it is not the
\* first), or, when the loop condition fails, the failure record and return.
Iterate(n, a, e, held) ==
    IF a <= RetryCount
    THEN /\ attempt' = [attempt EXCEPT ![n] = a]
         /\ lastErr' = [lastErr EXCEPT ![n] = e]
         /\ pc' = [pc EXCEPT ![n] = IF a > 1 THEN "sleep" ELSE "transfer"]
         /\ sem' = held
         /\ UNCHANGED <<results, wg>>
    ELSE Finish(n, FailureRecord(workers[n], e), held)

\* DistributeToWorker returned a nil error: results[idx] = result; return
Succeed(n) == Finish(n, DistributionResult(workers[n], TRUE, Nil), sem)

\* Variant: the goroutine starts its attempts without waiting for a slot.
AcquireNoLimit(n) ==
    /\ pc[n] = "acquire"
    /\ Iterate(n, 1, Nil, sem + 1)
    /\ UNCHANGED <<policy, chanVars, restVars, mainpc, spawned, retErr, report, calls, issued>>

\* sem <- struct{}{}, then the first evaluation of the loop condition
Acquire(n) ==
    /\ pc[n] = "acquire"
    /\ sem < Parallel
    /\ Iterate(n, 1, Nil, sem + 1)
    /\ UNCHANGED <<policy, chanVars, restVars, mainpc, spawned, retErr, report, calls, issued>>

\* time.Sleep(time.Second * 2)
Sleep(n) ==
    /\ pc[n] = "sleep"
    /\ Goto(n, "transfer")
    /\ UNCHANGED <<policy, chanVars, restVars, mainpc, spawned, attempt, lastErr, retErr,
                   report, calls, issued>>

\* DistributeToWorker up to the end of its scpToWorker call.
Transfer(n) ==
    /\ pc[n] = "transfer"
    /\ calls' = [calls EXCEPT ![n] = @ + 1]
    /\ \/ /\ issued' = [issued EXCEPT ![n] = <<>>]
          /\ Iterate(n, attempt[n] + 1,
                     Failure(workers[n], "cannot stat tarball",
                             RawErr("stat failed")).err, sem)
       \/ \E env \in ScpOutcomes :
             LET r == scpToWorker(localSize, env) IN
             /\ issued' = [issued EXCEPT ![n] = r.ops]
             /\ IF r.blocks
                THEN /\ Goto(n, "blocked")
                     /\ UNCHANGED <<attempt, lastErr>>
                ELSE IF r.err = Nil
                THEN /\ Goto(n, "import")
                     /\ UNCHANGED <<attempt, lastErr>>
                ELSE Iterate(n, attempt[n] + 1,
                             Failure(workers[n], "SCP failed", r.err).err, sem)
    /\ UNCHANGED <<policy, chanVars, restVars, mainpc, spawned, retErr, report>>

\* Variant: the import error is not checked and verification runs anyway.
ImportIgnoreError(n) ==
    /\ pc[n] = "import"
    /\ \E o \in ImportOutcomes :
          issued' = [issued EXCEPT ![n] =
                        Append(@, [op |-> "import", ok |-> importOnWorker(o) = Nil])]
    /\ Goto(n, "verify")
    /\ UNCHANGED <<policy, chanVars, restVars, mainpc, spawned, attempt, lastErr, retErr,
                   report, calls>>

\* DistributeToWorker: importOnWorker
Import(n) ==
    /\ pc[n] = "import"
    /\ \E o \in ImportOutcomes :
          LET e == importOnWorker(o) IN
          /\ issued' = [issued EXCEPT ![n] =
                           Append(@, [op |-> "import", ok |-> e = Nil])]
          /\ IF e = Nil
             THEN /\ Goto(n, "verify")
                  /\ UNCHANGED <<attempt, lastErr>>
             ELSE Iterate(n, attempt[n] + 1,
                          Failure(workers[n], "import failed", e).err, sem)
    /\ UNCHANGED <<policy, chanVars, restVars, mainpc, spawned, retErr, report, calls>>

\* DistributeToWorker: VerifyImportOnWorker, then the KeepTarballs test
Verify(n) ==
    /\ pc[n] = "verify"
    /\ \E o \in VerifyOutcomes :
          LET e == VerifyImportOnWorker(o) IN
          /\ issued' = [issued EXCEPT ![n] =
                           Append(@, [op |-> "verify", ok |-> e = Nil])]
          /\ IF e = Nil
             THEN IF KeepTarballs
                  THEN Succeed(n)
                  ELSE /\ Goto(n, "cleanup")
                       /\ UNCHANGED <<attempt, lastErr>>
             ELSE Iterate(n, attempt[n] + 1,
                          Failure(workers[n], "verification failed", e).err, sem)
    /\ UNCHANGED <<policy, chanVars, restVars, mainpc, spawned, retErr, report, calls>>

\* Variant: a failed delete fails the attempt.
CleanupChecked(n) ==
    /\ pc[n] = "cleanup"
    /\ \E o \in CleanupOutcomes :
          LET e == CleanupOnWorker(o) IN
          /\ issued' = [issued EXCEPT ![n] =
                           Append(@, [op |-> "cleanup", ok |-> e = Nil])]
          /\ IF e = Nil
             THEN Succeed(n)
             ELSE Iterate(n, attempt[n] + 1, e, sem)
    /\ UNCHANGED <<policy, chanVars, restVars, mainpc, spawned, retErr, report, calls>>

\* DistributeToWorker: CleanupOnWorker (its error is dropped), then return
Cleanup(n) ==
    /\ pc[n] = "cleanup"
    /\ \E o \in CleanupOutcomes :
          issued' = [issued EXCEPT ![n] =
                        Append(@, [op |-> "cleanup", ok |-> CleanupOnWorker(o) = Nil])]
    /\ Succeed(n)
    /\ UNCHANGED <<policy, chanVars, restVars, mainpc, spawned, retErr, report, calls>>

\* "Count successes"
successCount == Cardinality({i \in DOMAIN results : results[i].Success})

\* Variant: MinWorkers is used as it is, 0 included.
minRequiredNoDefault == MinWorkers

\* Variant: the requirement is capped at the number of workers.
minRequiredCapped ==
    IF MinWorkers = 0 \/ MinWorkers > Len(workers) THEN Len(workers) ELSE MinWorkers

\* minRequired
minRequired == IF MinWorkers = 0 THEN Len(workers) ELSE MinWorkers

QuorumError(count, required) == IF count < required THEN "quorum" ELSE "nil"

\* Variant: the degraded fleet is reported like a clean run.
DistributionReportQuiet(count, required, total) ==
    IF count < required THEN "none" ELSE "success"

DistributionReport(count, required, total) ==
    IF count < required THEN "none"
    ELSE IF count < total THEN "warning" ELSE "success"

\* Variant: the caller stops waiting as soon as one node has failed.
ReturnOnFirstFailure ==
    /\ mainpc = "spawning"
    /\ \/ spawned = Len(workers) /\ wg = 0
       \/ \E i \in DOMAIN results : results[i].present /\ ~results[i].Success
    /\ mainpc' = "returned"
    /\ retErr' = QuorumError(successCount, minRequired)
    /\ report' = DistributionReport(successCount, minRequired, Len(workers))
    /\ UNCHANGED <<policy, chanVars, restVars, spawned, wg, sem, pc, attempt, lastErr, results,
                   calls, issued>>

\* wg.Wait() returns; the verdict is computed and the call returns
Return ==
    /\ mainpc = "spawning"
    /\ spawned = Len(workers)
    /\ wg = 0
    /\ mainpc' = "returned"
    /\ retErr' = QuorumError(successCount, minRequired)
    /\ report' = DistributionReport(successCount, minRequired, Len(workers))
    /\ UNCHANGED <<policy, chanVars, restVars, spawned, wg, sem, pc, attempt, lastErr, results,
                   calls, issued>>

Next ==
    \/ Call
    \/ Spawn
    \/ Return
    \/ \E n \in Nodes : Acquire(n)
    \/ \E n \in Nodes : Sleep(n)
    \/ \E n \in Nodes : Transfer(n)
    \/ \E n \in Nodes : Import(n)
    \/ \E n \in Nodes : Verify(n)
    \/ \E n \in Nodes : Cleanup(n)

Spec == Init /\ [][Next]_vars

FairSpec == Spec /\ WF_vars(Next)

\* ------------------------------------------------------------------ scpToWorker, sshExec step by step
ChanInit ==
    /\ localSize \in 0..MaxSize
    /\ op \in {"scp", "exec"}
    /\ cpc = IF op = "scp" THEN "local" ELSE "none"
    /\ epc = IF op = "exec" THEN "dial" ELSE "none"
    /\ timer = IF op = "exec" THEN "armed" ELSE "off"
    /\ gpc = "none"
    /\ remote = "none"
    /\ clients = 0
    /\ sessions = 0
    /\ done = <<>>
    /\ output = NoOutput
    /\ cerr = Nil
    /\ execRet = NoReturn
    /\ ret = NoReturn
    /\ killed = FALSE
    /\ overdue = FALSE
    /\ Parallel = 0
    /\ RetryCount = 0
    /\ MinWorkers = 0
    /\ KeepTarballs = FALSE
    /\ workers = <<>>
    /\ mainpc = "idle"
    /\ spawned = 0
    /\ wg = 0
    /\ sem = 0
    /\ pc = <<>>
    /\ attempt = <<>>
    /\ lastErr = <<>>
    /\ results = <<>>
    /\ retErr = "none"
    /\ report = "none"
    /\ calls = <<>>
    /\ issued = <<>>
    /\ DeployIdle
    /\ NodeIdle
    /\ RetryIdle
    /\ DiscoveryIdle

\* scpToWorker returns e: the deferred session.Close and client.Close run.
ScpReturn(e) ==
    /\ ret' = Returns(NoOutput, e)
    /\ cpc' = "ret"
    /\ sessions' = IF cpc \in {"local", "dial", "session"} THEN sessions ELSE sessions - 1
    /\ clients' = IF cpc \in {"local", "dial"} THEN clients ELSE clients - 1

\* os.Stat and os.Open of the local file
ScpLocal ==
    /\ cpc = "local"
    /\ \/ /\ cpc' = "dial"
          /\ UNCHANGED <<ret, sessions, clients>>
       \/ ScpReturn(RawErr("cannot read local file"))
    /\ UNCHANGED <<fleetVars, restVars, localSize, op, epc, gpc, timer, remote, done, output,
                   cerr, execRet, killed, overdue>>

\* getSSHClient: ssh.Dial with ClientConfig.Timeout
ScpDial ==
    /\ cpc = "dial"
    /\ \/ /\ cpc' = "session"
          /\ clients' = clients + 1
          /\ UNCHANGED <<ret, sessions>>
       \/ ScpReturn(RawErr("SSH connection failed"))
    /\ UNCHANGED <<fleetVars, restVars, localSize, op, epc, gpc, timer, remote, done, output,
                   cerr, execRet, killed, overdue>>

\* client.NewSession
ScpSession ==
    /\ cpc = "session"
    /\ \/ /\ cpc' = "start"
          /\ sessions' = sessions + 1
          /\ UNCHANGED <<ret, clients>>
       \/ ScpReturn(RawErr("cannot create SSH session"))
    /\ UNCHANGED <<fleetVars, restVars, localSize, op, epc, gpc, timer, remote, done, output,
                   cerr, execRet, killed, overdue>>

\* session.StdinPipe and session.Start("scp -t ..."): the remote receiver
\* starts; it will answer the transfer or it will not.
ScpStart ==
    /\ cpc = "start"
    /\ \/ /\ cpc' = "copy"
          /\ remote' \in {"responds", "silent"}
          /\ UNCHANGED <<ret, sessions, clients>>
       \/ /\ ScpReturn(RawErr("cannot start SCP"))
          /\ UNCHANGED remote
    /\ UNCHANGED <<fleetVars, restVars, localSize, op, epc, gpc, timer, done, output, cerr,
                   execRet, killed, overdue>>

\* the header line, io.Copy of the file, the NUL byte, stdin.Close
ScpCopy ==
    /\ cpc = "copy"
    /\ \/ /\ cpc' = "wait"
          /\ UNCHANGED <<ret, sessions, clients>>
       \/ ScpReturn(RawErr("file copy failed"))
    /\ UNCHANGED <<fleetVars, restVars, localSize, op, epc, gpc, timer, remote, done, output,
                   cerr, execRet, killed, overdue>>

\* session.Wait returns once the remote receiver has exited: with status 0
\* scpToWorker goes on to call sshExec("stat -c%s ..."), whose context
\* deadline is armed by the call.
ScpWait ==
    /\ cpc = "wait"
    /\ remote = "responds"
    /\ \/ /\ cpc' = "check"
          /\ epc' = "dial"
          /\ timer' = "armed"
          /\ UNCHANGED <<ret, sessions, clients>>
       \/ /\ ScpReturn(RawErr("SCP session failed"))
          /\ UNCHANGED <<epc, timer>>
    /\ UNCHANGED <<fleetVars, restVars, localSize, op, gpc, remote, done, output, cerr,
                   execRet, killed, overdue>>

\* The end of scpToWorker, after sshExec has returned.
ScpCompare ==
    /\ cpc = "check"
    /\ epc = "ret"
    /\ IF execRet.err # Nil
       THEN ScpReturn(RawErr("cannot verify remote file"))
       ELSE ScpReturn(SizeCheck(localSize, execRet.out))
    /\ epc' = "none"
    /\ UNCHANGED <<fleetVars, restVars, localSize, op, gpc, timer, remote, done, output,
                   cerr, execRet, killed, overdue>>

\* sshExecWithContext returns (o, e): the deferred closes run for what was
\* opened, then sshExec's deferred cancel().
ExecReturn(o, e) ==
    /\ execRet' = Returns(o, e)
    /\ ret' = IF op = "exec" THEN Returns(o, e) ELSE ret
    /\ epc' = "ret"
    /\ timer' = "off"
    /\ sessions' = IF epc = "select" THEN sessions - 1 ELSE sessions
    /\ clients' = IF epc \in {"session", "select"} THEN clients - 1 ELSE clients

\* getSSHClient inside sshExecWithContext
ExecDial ==
    /\ epc = "dial"
    /\ \/ /\ epc' = "session"
          /\ clients' = clients + 1
          /\ UNCHANGED <<execRet, ret, timer, sessions>>
       \/ ExecReturn(NoOutput, RawErr("SSH dial failed"))
    /\ UNCHANGED <<fleetVars, restVars, localSize, op, cpc, gpc, remote, done, output, cerr,
                   killed, overdue>>

\* client.NewSession, make(chan error, 1) and the go statement: the remote
\* command starts; it will answer or it will not.
ExecSession ==
    /\ epc = "session"
    /\ \/ /\ epc' = "select"
          /\ sessions' = sessions + 1
          /\ gpc' = "running"
          /\ remote' \in {"responds", "silent"}
          /\ UNCHANGED <<execRet, ret, timer, clients>>
       \/ /\ ExecReturn(NoOutput, RawErr("cannot create session"))
          /\ UNCHANGED <<gpc, remote>>
    /\ UNCHANGED <<fleetVars, restVars, localSize, op, cpc, done, output, cerr, killed, overdue>>

\* The context deadline passes while sshExec is running.
TimerFire ==
    /\ timer = "armed"
    /\ timer' = "fired"
    /\ overdue' = (gpc \in {"none", "running"})
    /\ UNCHANGED <<fleetVars, restVars, localSize, op, cpc, epc, gpc, remote, clients,
                   sessions, done, output, cerr, execRet, ret, killed>>

\* goroutine: output, err = session.CombinedOutput(command) returns, because
\* the remote command ended or because the session has been closed under it.
GoOutput ==
    /\ gpc = "running"
    /\ \/ /\ remote = "responds"
          /\ epc = "select"
          /\ \E o \in Outputs, e \in {Nil, RawErr("exit status")} :
                output' = o /\ cerr' = e
       \/ /\ epc # "select"
          /\ output' = NoOutput
          /\ cerr' = RawErr("session closed")
    /\ gpc' = "send"
    /\ UNCHANGED <<fleetVars, restVars, localSize, op, cpc, epc, timer, remote, clients,
                   sessions, done, execRet, ret, killed, overdue>>

\* Variant: done has no buffer, the send needs the caller waiting in its select.
GoSendUnbuffered ==
    /\ gpc = "send"
    /\ epc = "select"
    /\ Len(done) < 1
    /\ done' = Append(done, cerr)
    /\ gpc' = "exited"
    /\ UNCHANGED <<fleetVars, restVars, localSize, op, cpc, epc, timer, remote, clients,
                   sessions, output, cerr, execRet, ret, killed, overdue>>

\* goroutine: done <- err
GoSend ==
    /\ gpc = "send"
    /\ Len(done) < 1
    /\ done' = Append(done, cerr)
    /\ gpc' = "exited"
    /\ UNCHANGED <<fleetVars, restVars, localSize, op, cpc, epc, timer, remote, clients,
                   sessions, output, cerr, execRet, ret, killed, overdue>>

\* select: case err := <-done
SelectDone ==
    /\ epc = "select"
    /\ done # <<>>
    /\ done' = Tail(done)
    /\ IF Head(done) # Nil
       THEN ExecReturn(output, RawErr("command failed"))
       ELSE ExecReturn(output, Nil)
    /\ UNCHANGED <<fleetVars, restVars, localSize, op, cpc, gpc, remote, output, cerr, killed,
                   overdue>>

\* select: case <-ctx.Done()
SelectTimeout ==
    /\ epc = "select"
    /\ timer = "fired"
    /\ killed' = TRUE
    /\ ExecReturn(NoOutput, RawErr("command timeout"))
    /\ UNCHANGED <<fleetVars, restVars, localSize, op, cpc, gpc, remote, done, output, cerr,
                   overdue>>

ChanNext ==
    \/ ScpLocal
    \/ ScpDial
    \/ ScpSession
    \/ ScpStart
    \/ ScpCopy
    \/ ScpWait
    \/ ScpCompare
    \/ ExecDial
    \/ ExecSession
    \/ TimerFire
    \/ GoOutput
    \/ GoSend
    \/ SelectDone
    \/ SelectTimeout

ChanSpec == ChanInit /\ [][ChanNext]_vars

\* ChanSpec with the scheduling Go gives: a goroutine that can run does run,
\* a deadline that is set passes, and a select with a ready case returns.
FairChanSpec ==
    /\ ChanSpec
    /\ WF_vars(GoOutput)
    /\ WF_vars(GoSend)
    /\ WF_vars(TimerFire)
    /\ WF_vars(SelectDone \/ SelectTimeout)

\* ------------------------------------------------------------------ runDeploy and TestConnectivity
\* The error sshExec returns for an outcome of the remote command.
ExecError(o) ==
    CASE o.status = "ok" -> Nil
      [] o.status = "failed" -> RawErr("command failed")
      [] o.status = "timeout" -> RawErr("command timeout")
      [] OTHER -> RawErr("SSH dial failed")

\* The entry of failures for a worker: "name (ip): err"
FailureLine(w, e) == [node |-> w, cause |-> e.cause]

\* runDeploy is called.  The flags and the worker list GetWorkerNodes will
\* resolve are inputs; runDeploy sees a node task only through its result,
\* so the archive size and KeepTarballs are left at one value.
DeployInit ==
    /\ Parallel \in 0..MaxParallel
    /\ RetryCount \in 0..MaxRetryCount
    /\ \E n \in 0..MaxWorkers :
          /\ workers = [i \in 1..n |-> i]
          /\ MinWorkers \in 0..(n + 1)
    /\ KeepTarballs = FALSE
    /\ localSize = 0
    /\ CallIdle
    /\ ChanIdle
    /\ NodeIdle
    /\ RetryIdle
    /\ DiscoveryIdle
    /\ dpc = "start"
    /\ skipImport \in BOOLEAN
    /\ Reachable = [i \in Nodes |-> FALSE]
    /\ LastError = [i \in Nodes |-> Nil]
    /\ probed = 0
    /\ failures = <<>>
    /\ tcErr = NoVerdict
    /\ probeLog = <<>>
    /\ comp = 0
    /\ exported = {}
    /\ distCalls = 0
    /\ tasks = [i \in Nodes |-> "idle"]
    /\ auditIdx = 0
    /\ audited = [c \in Components |-> {}]
    /\ applied = FALSE
    /\ deployRet = "none"

\* runDeploy returns the error e.
DeployFail(e) ==
    /\ dpc' = "returned"
    /\ deployRet' = e

\* runDeploy up to the connectivity test: workspace, prerequisites, payload
\* validation, then (unless --skip-import) GetWorkerNodes, which fails on a
\* query error or an empty node list.
DeployStart ==
    /\ dpc = "start"
    /\ \/ DeployFail("precondition failed")
       \/ /\ skipImport
          /\ dpc' = "apply"
          /\ UNCHANGED deployRet
       \/ /\ ~skipImport
          /\ DeployFail("failed to get worker nodes")
       \/ /\ ~skipImport
          /\ Len(workers) > 0
          /\ dpc' = "connectivity"
          /\ UNCHANGED deployRet
    /\ UNCHANGED <<policy, callVars, chanVars, discoveryVars, nodeVars, retryVars, skipImport,
                   Reachable, LastError, probed, failures, tcErr, probeLog, comp,
                   exported, distCalls, tasks, auditIdx, audited, applied>>

\* Variant: the loop stops at the first worker that cannot be reached.
ProbeUntilFailure ==
    /\ dpc = "connectivity"
    /\ probed < Len(workers)
    /\ \E o \in ExecOutcomes :
          LET i == probed + 1
              e == ExecError(o) IN
          /\ probeLog' = Append(probeLog, [node |-> workers[i], status |-> o.status])
          /\ IF e # Nil
             THEN /\ Reachable' = [Reachable EXCEPT ![i] = FALSE]
                  /\ LastError' = [LastError EXCEPT ![i] = e]
                  /\ failures' = Append(failures, FailureLine(workers[i], e))
                  /\ probed' = Len(workers)
             ELSE /\ Reachable' = [Reachable EXCEPT ![i] = TRUE]
                  /\ probed' = probed + 1
                  /\ UNCHANGED <<LastError, failures>>
    /\ UNCHANGED <<policy, callVars, chanVars, discoveryVars, nodeVars, retryVars, dpc, skipImport,
                   tcErr, comp, exported, distCalls, tasks, auditIdx, audited,
                   applied, deployRet>>

\* TestConnectivity: one iteration of "for _, worker := range workers"
Probe ==
    /\ dpc = "connectivity"
    /\ probed < Len(workers)
    /\ \E o \in ExecOutcomes :
          LET i == probed + 1
              e == ExecError(o) IN
          /\ probeLog' = Append(probeLog, [node |-> workers[i], status |-> o.status])
          /\ IF e # Nil
             THEN /\ Reachable' = [Reachable EXCEPT ![i] = FALSE]
                  /\ LastError' = [LastError EXCEPT ![i] = e]
                  /\ failures' = Append(failures, FailureLine(workers[i], e))
             ELSE /\ Reachable' = [Reachable EXCEPT ![i] = TRUE]
                  /\ UNCHANGED <<LastError, failures>>
    /\ probed' = probed + 1
    /\ UNCHANGED <<policy, callVars, chanVars, discoveryVars, nodeVars, retryVars, dpc, skipImport,
                   tcErr, comp, exported, distCalls, tasks, auditIdx, audited,
                   applied, deployRet>>

\* Variant: runDeploy logs the connectivity error and goes on.
ConnectivityIgnored ==
    /\ dpc = "connectivity"
    /\ probed = Len(workers)
    /\ tcErr' = [called |-> TRUE, unreachable |-> failures]
    /\ dpc' = "export"
    /\ comp' = 1
    /\ UNCHANGED <<policy, callVars, chanVars, discoveryVars, nodeVars, retryVars, skipImport,
                   Reachable, LastError, probed, failures, probeLog, exported,
                   distCalls, tasks, auditIdx, audited, applied, deployRet>>

\* TestConnectivity returns (the error joins the failures, nil when there are
\* none) and runDeploy returns on an error, or enters the component loop.
Connectivity ==
    /\ dpc = "connectivity"
    /\ probed = Len(workers)
    /\ tcErr' = [called |-> TRUE, unreachable |-> failures]
    /\ IF Len(failures) > 0
       THEN /\ DeployFail("SSH connectivity test failed")
            /\ UNCHANGED comp
       ELSE /\ dpc' = "export"
            /\ comp' = 1
            /\ UNCHANGED deployRet
    /\ UNCHANGED <<policy, callVars, chanVars, discoveryVars, nodeVars, retryVars, skipImport,
                   Reachable, LastError, probed, failures, probeLog, exported,
                   distCalls, tasks, auditIdx, audited, applied>>

\* dockerClient.SaveImage(component, tarballPath)
Export ==
    /\ dpc = "export"
    /\ \/ /\ exported' = exported \cup {comp}
          /\ dpc' = "call"
          /\ UNCHANGED deployRet
       \/ /\ DeployFail("failed to save image")
          /\ UNCHANGED exported
    /\ UNCHANGED <<policy, callVars, chanVars, discoveryVars, nodeVars, retryVars, skipImport,
                   Reachable, LastError, probed, failures, tcErr, probeLog, comp,
                   distCalls, tasks, auditIdx, audited, applied>>

\* runDeploy invokes DistributeToAllWorkers: one task per worker is started.
Distribute ==
    /\ dpc = "call"
    /\ distCalls' = distCalls + 1
    /\ tasks' = [i \in Nodes |-> "waiting"]
    /\ dpc' = "distributing"
    /\ UNCHANGED <<policy, callVars, chanVars, discoveryVars, nodeVars, retryVars, skipImport,
                   Reachable, LastError, probed, failures, tcErr, probeLog, comp,
                   exported, auditIdx, audited, applied, deployRet>>

\* A node task takes its slot of the semaphore.
TaskStart(n) ==
    /\ dpc = "distributing"
    /\ tasks[n] = "waiting"
    /\ Cardinality({i \in Nodes : tasks[i] = "running"}) < Parallel
    /\ tasks' = [tasks EXCEPT ![n] = "running"]
    /\ UNCHANGED <<policy, callVars, chanVars, discoveryVars, nodeVars, retryVars, dpc, skipImport,
                   Reachable, LastError, probed, failures, tcErr, probeLog, comp,
                   exported, distCalls, auditIdx, audited, applied, deployRet>>

\* Variant: a task that fails marks its worker unreachable.
TaskEndMarksWorker(n) ==
    /\ dpc = "distributing"
    /\ tasks[n] = "running"
    /\ \/ /\ RetryCount >= 1
          /\ tasks' = [tasks EXCEPT ![n] = "ok"]
          /\ UNCHANGED Reachable
       \/ /\ tasks' = [tasks EXCEPT ![n] = "failed"]
          /\ Reachable' = [Reachable EXCEPT ![n] = FALSE]
    /\ UNCHANGED <<policy, callVars, chanVars, discoveryVars, nodeVars, retryVars, dpc, skipImport,
                   LastError, probed, failures, tcErr, probeLog, comp,
                   exported, distCalls, auditIdx, audited, applied, deployRet>>

\* A node task writes its result and releases its slot: a success after one
\* of its RetryCount attempts, or the failure record.
TaskEnd(n) ==
    /\ dpc = "distributing"
    /\ tasks[n] = "running"
    /\ \/ /\ RetryCount >= 1
          /\ tasks' = [tasks EXCEPT ![n] = "ok"]
       \/ tasks' = [tasks EXCEPT ![n] = "failed"]
    /\ UNCHANGED <<policy, callVars, chanVars, discoveryVars, nodeVars, retryVars, dpc, skipImport,
                   Reachable, LastError, probed, failures, tcErr, probeLog, comp,
                   exported, distCalls, auditIdx, audited, applied, deployRet>>

\* DistributeToAllWorkers returns to runDeploy: on the quorum error runDeploy
\* returns; otherwise it goes to the next component, or to the audit.
Distributed ==
    /\ dpc = "distributing"
    /\ \A i \in Nodes : tasks[i] \in {"ok", "failed"}
    /\ tasks' = [i \in Nodes |-> "idle"]
    /\ IF Cardinality({i \in Nodes : tasks[i] = "ok"}) < minRequired
       THEN /\ DeployFail("failed to distribute")
            /\ UNCHANGED comp
       ELSE /\ dpc' = IF comp < Cardinality(Components) THEN "export" ELSE "audit"
            /\ comp' = IF comp < Cardinality(Components) THEN comp + 1 ELSE 1
            /\ UNCHANGED deployRet
    /\ UNCHANGED <<policy, callVars, chanVars, discoveryVars, nodeVars, retryVars, skipImport,
                   Reachable, LastError, probed, failures, tcErr, probeLog,
                   exported, distCalls, auditIdx, audited, applied>>

\* The audit: VerifyImportOnWorker(worker, imageName) for the next worker
Audit ==
    /\ dpc = "audit"
    /\ auditIdx < Len(workers)
    /\ \E o \in VerifyOutcomes :
          audited' = [audited EXCEPT ![comp] =
                         IF VerifyImportOnWorker(o) = Nil
                         THEN @ \cup {auditIdx + 1} ELSE @]
    /\ auditIdx' = auditIdx + 1
    /\ UNCHANGED <<policy, callVars, chanVars, discoveryVars, nodeVars, retryVars, dpc, skipImport,
                   Reachable, LastError, probed, failures, tcErr, probeLog, comp,
                   exported, distCalls, tasks, applied, deployRet>>

\* Variant: with MinWorkers = 0 one worker that has the image is enough.
auditRequiredOne == IF MinWorkers = 0 THEN 1 ELSE MinWorkers

\* The audit's minRequired
auditRequired == IF MinWorkers = 0 THEN Len(workers) ELSE MinWorkers

\* The end of the audit of one component: successCount < minRequired
Audited ==
    /\ dpc = "audit"
    /\ auditIdx = Len(workers)
    /\ auditIdx' = 0
    /\ IF Cardinality(audited[comp]) < auditRequired
       THEN /\ DeployFail("image not available on enough workers")
            /\ UNCHANGED comp
       ELSE /\ dpc' = IF comp < Cardinality(Components) THEN "audit" ELSE "apply"
            /\ comp' = IF comp < Cardinality(Components) THEN comp + 1 ELSE comp
            /\ UNCHANGED deployRet
    /\ UNCHANGED <<policy, callVars, chanVars, discoveryVars, nodeVars, retryVars, skipImport,
                   Reachable, LastError, probed, failures, tcErr, probeLog,
                   exported, distCalls, tasks, audited, applied>>

\* k8sClient.DeployWithOptions: the manifests are applied
Apply ==
    /\ dpc = "apply"
    /\ applied' = TRUE
    /\ dpc' = "returned"
    /\ deployRet' \in {"nil", "deploy failed"}
    /\ UNCHANGED <<policy, callVars, chanVars, discoveryVars, nodeVars, retryVars, skipImport,
                   Reachable, LastError, probed, failures, tcErr, probeLog, comp,
                   exported, distCalls, tasks, auditIdx, audited>>

DeployNext ==
    \/ DeployStart
    \/ Probe
    \/ Connectivity
    \/ Export
    \/ Distribute
    \/ \E n \in Nodes : TaskStart(n)
    \/ \E n \in Nodes : TaskEnd(n)
    \/ Distributed
    \/ Audit
    \/ Audited
    \/ Apply

DeploySpec == DeployInit /\ [][DeployNext]_vars

\* ------------------------------------------------------------------ DistributeToWorker on one worker, call after call
\* Image references as the characters of their text: the reference that is
\* distributed, a longer reference that contains it, and an unrelated one.
ImageName == <<"a", "p", "p">>

LongerName == <<"a", "p", "p", "2">>

OtherName == <<"d", "b">>

References == {ImageName, LongerName, OtherName}

\* strings.Contains(output, imageName), the output being the listed references
Contains(listing, name) ==
    \E r \in listing :
        \E k \in 0..(Len(r) - Len(name)) : SubSeq(r, k + 1, k + Len(name)) = name

\* What "ctr images list" lets VerifyImportOnWorker conclude when it runs.
Listing(imgs) == IF Contains(imgs, ImageName) THEN "listed" ELSE "missing"

\* The worker may already hold images and an archive from earlier runs.
NodeInit ==
    /\ Parallel = 1
    /\ RetryCount = 1
    /\ MinWorkers = 0
    /\ KeepTarballs \in BOOLEAN
    /\ localSize \in 0..MaxSize
    /\ workers = <<1>>
    /\ CallIdle
    /\ ChanIdle
    /\ DeployIdle
    /\ RetryIdle
    /\ DiscoveryIdle
    /\ npc = "idle"
    /\ images \in SUBSET References
    /\ tarball \in {"absent", "present"}
    /\ ncalls = 0
    /\ nok = FALSE
    /\ nres = NoResult

\* DistributeToWorker returns the result r.
NodeReturn(r) ==
    /\ npc' = "idle"
    /\ nres' = r
    /\ nok' = (nok \/ r.Success)

\* DistributeToWorker is called: os.Stat(tarballPath)
NodeCall ==
    /\ npc = "idle"
    /\ ncalls < MaxCalls
    /\ ncalls' = ncalls + 1
    /\ \/ /\ npc' = "transfer"
          /\ UNCHANGED <<nok, nres>>
       \/ NodeReturn(Failure(workers[1], "cannot stat tarball", RawErr("stat failed")).result)
    /\ UNCHANGED <<policy, callVars, chanVars, discoveryVars, deployVars, retryVars, images, tarball>>

\* scpToWorker: once the byte stream has run the remote archive exists; a
\* stream that breaks may or may not have created it.
NodeTransfer ==
    /\ npc = "transfer"
    /\ \E env \in ScpOutcomes :
          LET r == scpToWorker(localSize, env) IN
          /\ tarball' \in IF env.stream = "ok" THEN {"present"}
                          ELSE IF env.stream \in {"fail", "silent"}
                          THEN {tarball, "present"}
                          ELSE {tarball}
          /\ IF r.blocks
             THEN /\ npc' = "blocked"
                  /\ UNCHANGED <<nok, nres>>
             ELSE IF r.err = Nil
             THEN /\ npc' = "import"
                  /\ UNCHANGED <<nok, nres>>
             ELSE NodeReturn(Failure(workers[1], "SCP failed", r.err).result)
    /\ UNCHANGED <<policy, callVars, chanVars, discoveryVars, deployVars, retryVars, images, ncalls>>

\* Variant: the image is removed from containerd before it is imported.
NodeImportFresh ==
    /\ npc = "import"
    /\ \E o \in ImportOutcomes :
          LET e == importOnWorker(o) IN
          IF e = Nil
          THEN /\ \E r \in References : images' = (images \ {ImageName}) \cup {r}
               /\ npc' = "verify"
               /\ UNCHANGED <<nok, nres>>
          ELSE /\ images' = images \ {ImageName}
               /\ NodeReturn(Failure(workers[1], "import failed", e).result)
    /\ UNCHANGED <<policy, callVars, chanVars, discoveryVars, deployVars, retryVars, tarball, ncalls>>

\* importOnWorker: "ctr images import" adds the references of the archive
\* to containerd when it succeeds and removes none.
NodeImport ==
    /\ npc = "import"
    /\ \E o \in ImportOutcomes :
          LET e == importOnWorker(o) IN
          IF e = Nil
          THEN /\ \E r \in References : images' = images \cup {r}
               /\ npc' = "verify"
               /\ UNCHANGED <<nok, nres>>
          ELSE /\ UNCHANGED images
               /\ NodeReturn(Failure(workers[1], "import failed", e).result)
    /\ UNCHANGED <<policy, callVars, chanVars, discoveryVars, deployVars, retryVars, tarball, ncalls>>

\* Variant: a failed verification removes the remote archive before returning.
NodeVerifyTidy ==
    /\ npc = "verify"
    /\ \E o \in {Listing(images), "failed"} :
          LET e == VerifyImportOnWorker(o) IN
          IF e = Nil
          THEN /\ UNCHANGED tarball
               /\ IF KeepTarballs
                  THEN NodeReturn(DistributionResult(workers[1], TRUE, Nil))
                  ELSE /\ npc' = "cleanup"
                       /\ UNCHANGED <<nok, nres>>
          ELSE /\ tarball' = "absent"
               /\ NodeReturn(Failure(workers[1], "verification failed", e).result)
    /\ UNCHANGED <<policy, callVars, chanVars, discoveryVars, deployVars, retryVars, images, ncalls>>

\* VerifyImportOnWorker, then the KeepTarballs test
NodeVerify ==
    /\ npc = "verify"
    /\ \E o \in {Listing(images), "failed"} :
          LET e == VerifyImportOnWorker(o) IN
          IF e = Nil
          THEN IF KeepTarballs
               THEN NodeReturn(DistributionResult(workers[1], TRUE, Nil))
               ELSE /\ npc' = "cleanup"
                    /\ UNCHANGED <<nok, nres>>
          ELSE NodeReturn(Failure(workers[1], "verification failed", e).result)
    /\ UNCHANGED <<policy, callVars, chanVars, discoveryVars, deployVars, retryVars, images, tarball,
                   ncalls>>

\* CleanupOnWorker: "rm -f" of the remote archive; the error is dropped
NodeCleanup ==
    /\ npc = "cleanup"
    /\ \E o \in CleanupOutcomes :
          tarball' \in IF CleanupOnWorker(o) = Nil THEN {"absent"} ELSE {tarball, "absent"}
    /\ NodeReturn(DistributionResult(workers[1], TRUE, Nil))
    /\ UNCHANGED <<policy, callVars, chanVars, discoveryVars, deployVars, retryVars, images, ncalls>>

NodeNext ==
    \/ NodeCall
    \/ NodeTransfer
    \/ NodeImport
    \/ NodeVerify
    \/ NodeCleanup

NodeSpec == NodeInit /\ [][NodeNext]_vars

\* ------------------------------------------------------------------ retry.WithRetry
\* What one invocation of operation returns: nil or an error.
OperationOutcomes == {"nil", "refused", "reset", "busy"}

RetryInit ==
    /\ Parallel = 0
    /\ RetryCount = 0
    /\ MinWorkers = 0
    /\ KeepTarballs = FALSE
    /\ localSize = 0
    /\ workers = <<>>
    /\ CallIdle
    /\ ChanIdle
    /\ DeployIdle
    /\ NodeIdle
    /\ DiscoveryIdle
    /\ MaxRetries \in 0..MaxMaxRetries
    /\ rpc = "loop"
    /\ rattempt = 1
    /\ rlastErr = "nil"
    /\ rlog = <<>>
    /\ rret = [called |-> FALSE, nil |-> TRUE, cause |-> "nil"]

\* Variant: a successful invocation does not end the loop.
RetryInvokeOn ==
    /\ rpc = "loop"
    /\ rattempt <= MaxRetries
    /\ \E o \in OperationOutcomes :
          /\ rlog' = Append(rlog, o)
          /\ rlastErr' = o
          /\ IF rattempt < MaxRetries
             THEN rpc' = "sleep" /\ UNCHANGED rattempt
             ELSE rpc' = "loop" /\ rattempt' = rattempt + 1
          /\ UNCHANGED rret
    /\ UNCHANGED <<policy, callVars, chanVars, discoveryVars, deployVars, nodeVars, MaxRetries>>

\* One pass of the loop body: lastErr = operation(); return nil on success,
\* otherwise go to the delay, or past the last attempt to the loop exit.
RetryInvoke ==
    /\ rpc = "loop"
    /\ rattempt <= MaxRetries
    /\ \E o \in OperationOutcomes :
          /\ rlog' = Append(rlog, o)
          /\ rlastErr' = o
          /\ IF o = "nil"
             THEN /\ rret' = [called |-> TRUE, nil |-> TRUE, cause |-> "nil"]
                  /\ rpc' = "returned"
                  /\ UNCHANGED rattempt
             ELSE /\ IF rattempt < MaxRetries
                     THEN rpc' = "sleep" /\ UNCHANGED rattempt
                     ELSE rpc' = "loop" /\ rattempt' = rattempt + 1
                  /\ UNCHANGED rret
    /\ UNCHANGED <<policy, callVars, chanVars, discoveryVars, deployVars, nodeVars, MaxRetries>>

\* time.Sleep(opts.Delay), then attempt++
RetrySleep ==
    /\ rpc = "sleep"
    /\ rpc' = "loop"
    /\ rattempt' = rattempt + 1
    /\ UNCHANGED <<policy, callVars, chanVars, discoveryVars, deployVars, nodeVars, MaxRetries,
                   rlastErr, rlog, rret>>

\* The loop condition fails: "operation failed after %d attempts: %w"
RetryExhausted ==
    /\ rpc = "loop"
    /\ rattempt > MaxRetries
    /\ rret' = [called |-> TRUE, nil |-> FALSE, cause |-> rlastErr]
    /\ rpc' = "returned"
    /\ UNCHANGED <<policy, callVars, chanVars, discoveryVars, deployVars, nodeVars, MaxRetries,
                   rattempt, rlastErr, rlog>>

RetryNext ==
    \/ RetryInvoke
    \/ RetrySleep
    \/ RetryExhausted

RetrySpec == RetryInit /\ [][RetryNext]_vars

\* ------------------------------------------------------------------ worker discovery
\* Label keys as the pieces of their text: the two role labels, a label of
\* another kind whose key has "master" in it, and the hostname label.
RoleControlPlane == <<"node-role.kubernetes.io/", "control-plane">>

RoleMaster == <<"node-role.kubernetes.io/", "master">>

PoolLabel == <<"pool/", "master", "-db">>

HostnameLabel == <<"kubernetes.io/hostname">>

\* The label sets a node of the list can carry.
LabelSets == {{HostnameLabel}, {HostnameLabel, RoleControlPlane}, {RoleMaster},
              {HostnameLabel, PoolLabel}}

\* The types of the entries of status.addresses a node can report, in order.
AddressTypes == {<<>>, <<"InternalIP">>, <<"ExternalIP", "InternalIP">>,
                 <<"InternalIP", "InternalIP">>}

\* The address of entry k of node i: no two entries share an address.
NodeAddress(i, k) == "10.0." \o ToString(i) \o "." \o ToString(k)

\* The addresses the --workers flag can name.
ManualAddresses == {"192.168.0.1", "192.168.0.2"}

\* How the run of "kubectl get nodes -o json" can end: with the node list,
\* with an error, or with output that is not the JSON of a node list.
KubectlOutcomes == {"ok", "failed", "garbled"}

\* isControlPlane: some label key contains "control-plane" or "master"
isControlPlane(node) ==
    \/ Contains(node.labels, <<"control-plane">>)
    \/ Contains(node.labels, <<"master">>)

\* The inner loop over node.Status.Addresses: the first InternalIP entry, if any.
InternalIP(node) ==
    LET ks == {k \in 1..Len(node.addrs) : node.addrs[k].Type = "InternalIP"} IN
    IF ks = {} THEN <<>>
    ELSE <<node.addrs[CHOOSE k \in ks : \A j \in ks : k <= j].Address>>

\* The loop over nodeList.Items
RECURSIVE workerIPs(_)
workerIPs(items) ==
    IF items = <<>> THEN <<>>
    ELSE (IF isControlPlane(Head(items)) THEN <<>> ELSE InternalIP(Head(items)))
         \o workerIPs(Tail(items))

\* Client.GetWorkerIPs
GetWorkerIPs(o, items) ==
    IF o = "failed"
    THEN [called |-> TRUE, ips |-> <<>>, err |-> RawErr("failed to get nodes")]
    ELSE IF o = "garbled"
    THEN [called |-> TRUE, ips |-> <<>>, err |-> RawErr("failed to parse node list JSON")]
    ELSE IF Len(workerIPs(items)) = 0
    THEN [called |-> TRUE, ips |-> <<>>, err |-> RawErr("no worker nodes found in cluster")]
    ELSE [called |-> TRUE, ips |-> workerIPs(items), err |-> Nil]

\* Variant: a manual worker is named after its address.
ManualNodeByAddress(i, ip) == [Name |-> <<"worker-", ip>>, IP |-> ip]

\* &WorkerNode{Name: fmt.Sprintf("worker-%d", i+1), IP: ip}, i+1 being the
\* position in the list counted from 1
ManualNode(i, ip) == [Name |-> <<"worker-", ToString(i)>>, IP |-> ip]

\* &WorkerNode{Name: fmt.Sprintf("worker-%s", ip), IP: ip}
DiscoveredNode(ip) == [Name |-> <<"worker-", ip>>, IP |-> ip]

\* The flag and the cluster are inputs: any list of addresses, any node list.
DiscoveryInit ==
    /\ Parallel = 0
    /\ RetryCount = 0
    /\ MinWorkers = 0
    /\ KeepTarballs = FALSE
    /\ localSize = 0
    /\ workers = <<>>
    /\ CallIdle
    /\ ChanIdle
    /\ DeployIdle
    /\ NodeIdle
    /\ RetryIdle
    /\ \E n \in 0..MaxWorkers : WorkerIPs \in [1..n -> ManualAddresses]
    /\ \E n \in 0..MaxClusterNodes :
          \E ls \in [1..n -> LabelSets], ts \in [1..n -> AddressTypes] :
              cluster = [i \in 1..n |->
                           [labels |-> ls[i],
                            addrs |-> [k \in 1..Len(ts[i]) |->
                                         [Type |-> ts[i][k],
                                          Address |-> NodeAddress(i, k)]]]]
    /\ wpc = "start"
    /\ kubectl = "none"
    /\ ipsRet = [called |-> FALSE, ips |-> <<>>, err |-> Nil]
    /\ found = [called |-> FALSE, workers |-> <<>>, err |-> Nil]

\* GetWorkerNodes, manual list: if len(d.WorkerIPs) > 0 { ... return workers, nil }
ManualWorkers ==
    /\ wpc = "start"
    /\ Len(WorkerIPs) > 0
    /\ found' = [called |-> TRUE,
                 workers |-> [i \in 1..Len(WorkerIPs) |-> ManualNode(i, WorkerIPs[i])],
                 err |-> Nil]
    /\ wpc' = "returned"
    /\ UNCHANGED <<policy, callVars, chanVars, deployVars, nodeVars, retryVars,
                   WorkerIPs, cluster, kubectl, ipsRet>>

\* GetWorkerNodes, no manual list: ips, err := getter.GetWorkerIPs().  The
\* client runDeploy passes is a *k8s.Client, which has the method, so the
\* type assertion before the call succeeds.
QueryCluster ==
    /\ wpc = "start"
    /\ Len(WorkerIPs) = 0
    /\ \E o \in KubectlOutcomes :
          /\ kubectl' = o
          /\ ipsRet' = GetWorkerIPs(o, cluster)
    /\ wpc' = "queried"
    /\ UNCHANGED <<policy, callVars, chanVars, deployVars, nodeVars, retryVars,
                   WorkerIPs, cluster, found>>

\* GetWorkerNodes after the query: the error is wrapped, an empty list is an
\* error, every address becomes a node named after it.
NameWorkers ==
    /\ wpc = "queried"
    /\ found' =
          IF ipsRet.err # Nil
          THEN [called |-> TRUE, workers |-> <<>>,
                err |-> Annotate("failed to get worker IPs from k8s", ipsRet.err)]
          ELSE IF Len(ipsRet.ips) = 0
          THEN [called |-> TRUE, workers |-> <<>>,
                err |-> RawErr("no worker nodes found in cluster")]
          ELSE [called |-> TRUE,
                workers |-> [i \in 1..Len(ipsRet.ips) |-> DiscoveredNode(ipsRet.ips[i])],
                err |-> Nil]
    /\ wpc' = "returned"
    /\ UNCHANGED <<policy, callVars, chanVars, deployVars, nodeVars, retryVars,
                   WorkerIPs, cluster, kubectl, ipsRet>>

DiscoveryNext ==
    \/ ManualWorkers
    \/ QueryCluster
    \/ NameWorkers

DiscoverySpec == DiscoveryInit /\ [][DiscoveryNext]_vars

\* ------------------------------------------------------------------ properties
Recorded(i) == i \in DOMAIN results /\ results[i].present

Succeeded == {i \in Nodes : Recorded(i) /\ results[i].Success}

Failed == {i \in Nodes : Recorded(i) /\ ~results[i].Success}

Returned == mainpc = "returned"

\* Positions at which a node pipeline is in flight: every step of every
\* attempt and the delay between attempts.
InFlight == {"sleep", "transfer", "import", "verify", "cleanup", "blocked"}

\* C1: DistributeToAllWorkers returns the quorum error exactly when fewer
\* results have Success = true than effectiveMinWorkers (len(workers) when
\* MinWorkers = 0, MinWorkers otherwise); with MinWorkers = 0 one failed node
\* is enough for the error.
C1_QuorumIff ==
    Returned =>
        /\ retErr \in {"nil", "quorum"}
        /\ (retErr = "quorum") <=>
              (Cardinality(Succeeded) <
                  (IF MinWorkers = 0 THEN Len(workers) ELSE MinWorkers))
        /\ (MinWorkers = 0 /\ Failed # {}) => retErr = "quorum"

C1_Witness ==
    /\ Returned
    /\ MinWorkers = 0
    /\ Len(workers) = 2
    /\ Cardinality(Succeeded) = 1
    /\ \E i \in Failed : RetryCount >= 1 /\ calls[i] = RetryCount
    /\ retErr = "quorum"

\* C2 as stated: whenever MinWorkers = k <= len(workers), exactly k nodes
\* succeed and the other nodes fail, the call returns nil and logs the
\* degraded-fleet warning.
C2_Original ==
    (/\ Returned
     /\ MinWorkers <= Len(workers)
     /\ Cardinality(Succeeded) = MinWorkers
     /\ Failed # {}
     /\ \A i \in Failed : calls[i] >= 1)
        => (retErr = "nil" /\ report = "warning")

\* C2 amended: with exactly k = MinWorkers successes and the other nodes
\* failed, the call returns nil with the warning when 1 <= k < len(workers),
\* and the quorum error when k = 0 (0 means that all workers are required);
\* with k = len(workers) no node failed and the call returns nil with the
\* all-workers success line.
C2_Amended ==
    (/\ Returned
     /\ MinWorkers <= Len(workers)
     /\ Cardinality(Succeeded) = MinWorkers)
        => /\ (1 <= MinWorkers /\ Failed # {})
                 => (MinWorkers < Len(workers) /\ retErr = "nil" /\ report = "warning")
           /\ (MinWorkers = 0 /\ Failed # {})
                 => (retErr = "quorum" /\ report = "none")
           /\ MinWorkers = Len(workers)
                 => (Failed = {} /\ retErr = "nil" /\ report = "success")

C2_Witness ==
    /\ Returned
    /\ Len(workers) = 2
    /\ MinWorkers = 1
    /\ Cardinality(Succeeded) = 1
    /\ Cardinality(Failed) = 1
    /\ report = "warning"

\* C3: a node is recorded as failed only after exactly RetryCount calls of
\* DistributeToWorker, all of which failed; no node is attempted more often.
C3_RetryBound ==
    \A i \in Nodes :
        /\ calls[i] <= RetryCount
        /\ i \in Failed => calls[i] = RetryCount
        /\ (pc[i] = "done" /\ i \notin Succeeded) => i \in Failed

C3_Witness ==
    \E i \in Failed : RetryCount = 2 /\ calls[i] = 2 /\ pc[i] = "done"

\* C4: at every moment at most Parallel node pipelines are in flight.
C4_ParallelBound ==
    Cardinality({n \in Nodes : pc[n] \in InFlight}) <= Parallel

C4_Witness ==
    /\ Parallel = 1
    /\ Len(workers) = 2
    /\ \E n, m \in Nodes : pc[n] = "sleep" /\ pc[m] = "acquire"

\* C5 as stated: for every Parallel >= 0, as long as no remote operation
\* blocks for ever, the call cannot come to a halt before it has returned.
C5_NeverStuck ==
    \/ Returned
    \/ \E n \in Nodes : pc[n] = "blocked"
    \/ ENABLED Next

\* C7: on return results has one entry per worker, none nil, and entry i
\* belongs to workers[i], with or without the quorum error.
C7_ResultsComplete ==
    Returned =>
        /\ DOMAIN results = 1..Len(workers)
        /\ \A i \in 1..Len(workers) :
              results[i].present /\ results[i].Worker = workers[i]

C7_Witness ==
    /\ Returned
    /\ Len(workers) = 2
    /\ retErr = "quorum"
    /\ results[1].present /\ ~results[1].Success
    /\ results[2].present /\ results[2].Success

PipelineOrder == <<"transfer", "sizecheck", "import", "verify", "cleanup">>

AttemptInOrder(n) ==
    LET t == issued[n] IN
    /\ Len(t) <= Len(PipelineOrder)
    /\ \A k \in 1..Len(t) : t[k].op = PipelineOrder[k]
    /\ \A k \in 1..(Len(t) - 1) : t[k].ok
    /\ pc[n] = "import" => (Len(t) = 2 /\ t[2].ok)
    /\ pc[n] = "verify" => (Len(t) = 3 /\ t[3].ok)
    /\ pc[n] = "cleanup" => (Len(t) = 4 /\ t[4].ok)
    /\ pc[n] = "sleep" => (t = <<>> \/ ~t[Len(t)].ok)

\* C8: within an attempt the remote steps are issued in the order transfer,
\* size check, import, verify, cleanup; each is issued only after the one
\* before it succeeded; a failed step is the last of its attempt; and the
\* next attempt begins with the transfer.
C8_StepOrder ==
    /\ [](\A n \in Nodes : AttemptInOrder(n))
    /\ [][\A n \in Nodes :
            /\ pc[n] = "sleep" => pc'[n] \in {"sleep", "transfer"}
            /\ calls'[n] # calls[n] =>
                  (pc[n] = "transfer" /\ Len(issued'[n]) <= 2)
            /\ pc'[n] = "import" => pc[n] \in {"import", "transfer"}
            /\ pc'[n] = "verify" => pc[n] \in {"verify", "import"}
            /\ pc'[n] = "cleanup" => pc[n] \in {"cleanup", "verify"}]_vars

C8_Witness ==
    /\ Len(workers) = 2
    /\ calls[1] = 2 /\ pc[1] = "verify"
    /\ pc[2] = "sleep"
    /\ issued[2] = <<[op |-> "transfer", ok |-> TRUE],
                     [op |-> "sizecheck", ok |-> FALSE]>>
    /\ lastErr[2].cause = "size mismatch"

StepAnnotations == {"cannot stat tarball", "SCP failed", "import failed",
                    "verification failed"}

\* C9 as stated: the result recorded for a node whose attempts failed at a
\* remote step carries the causing error annotated with the step that failed.
C9_Annotated ==
    \A i \in Failed :
        (calls[i] >= 1 /\ issued[i] # <<>>) =>
            /\ results[i].Error # Nil
            /\ results[i].Error.annot \in StepAnnotations

\* C6 as stated: no blocking step of the pipeline waits without a bound, so
\* a call that has not returned can always take a step, if only because its
\* timeout fires.
C6_NoUnboundedWait ==
    ret.called \/ ENABLED ChanNext

NumberEqual(out, size) == out.kind = "num" /\ out.val = size

\* C10 as stated: scpToWorker returns nil only if the size query answered
\* the number S, and any other answer to a successful query (another number,
\* or text that is no number) makes it return the size-mismatch error.
C10_SizeVerified ==
    (op = "scp" /\ cpc = "ret") =>
        /\ ret.err = Nil =>
              (execRet.called /\ execRet.err = Nil
                  /\ NumberEqual(execRet.out, localSize))
        /\ (execRet.called /\ execRet.err = Nil
               /\ ~NumberEqual(execRet.out, localSize))
              => ret.err = RawErr("size mismatch")

\* C11 as stated: when the deadline of sshExec passes before the remote
\* command has returned, the call sends SIGKILL and returns the timeout
\* error; the command's own output and status are returned only when the
\* command returned before the deadline.
C11_TimeoutKills ==
    (execRet.called /\ gpc # "none") =>
        /\ overdue => (execRet.err = RawErr("command timeout") /\ killed)
        /\ execRet.err \in {Nil, RawErr("command failed")} => ~overdue

\* C12 as stated: a task never starts a remote operation while a connection
\* or a session of an earlier operation is still open, so at most one
\* connection and one session are open at any time.
C12_ClosedBeforeNext ==
    /\ clients <= 1
    /\ sessions <= 1
    /\ ret.called => (clients = 0 /\ sessions = 0)

\* The causes with which an attempt that issued the operations t can fail.
OwnCauses(t) ==
    IF t = <<>>
    THEN {"stat failed", "cannot read local file", "SSH connection failed"}
    ELSE CASE t[Len(t)].op = "transfer" -> {"SCP session failed"}
           [] t[Len(t)].op = "sizecheck" ->
                 {"cannot verify remote file", "size mismatch"}
           [] t[Len(t)].op = "import" ->
                 {importOnWorker(o).cause : o \in ImportOutcomes \ {"ok"}}
           [] t[Len(t)].op = "verify" ->
                 {VerifyImportOnWorker(o).cause : o \in VerifyOutcomes \ {"listed"}}
           [] OTHER -> {}

Verified(t) == \E k \in 1..Len(t) : t[k].op = "verify" /\ t[k].ok

\* C13: when the call returns with RetryCount >= 1, every node was attempted
\* at least once whatever became of its siblings, its result is decided by
\* its own last attempt alone, and the error in its result is the error of
\* its own failing step.
C13_Independent ==
    (Returned /\ RetryCount >= 1) =>
        \A i \in Nodes :
            /\ calls[i] >= 1
            /\ Recorded(i) /\ results[i].Worker = workers[i]
            /\ results[i].Success <=> Verified(issued[i])
            /\ results[i].Success => results[i].Error = Nil
            /\ ~results[i].Success =>
                  results[i].Error.cause \in OwnCauses(issued[i])

C13_Witness ==
    /\ Returned
    /\ Len(workers) = 2
    /\ Parallel = 1
    /\ RetryCount = 2
    /\ results[1].present /\ ~results[1].Success /\ calls[1] = 2
    /\ results[1].Error.cause = "disk full on worker"
    /\ results[2].Success /\ calls[2] = 1

Deleted(t) == \E k \in 1..Len(t) : t[k].op = "cleanup"

\* C17: a node whose transfer, import and verification succeeded is recorded
\* with Success = true whether the delete command then succeeded or failed;
\* the delete command is issued only after a successful verification and
\* never when KeepTarballs is set.
C17_CleanupHarmless ==
    \A i \in Nodes :
        /\ KeepTarballs => ~Deleted(issued[i])
        /\ Deleted(issued[i]) => Verified(issued[i])
        /\ pc[i] = "done" =>
              /\ Verified(issued[i]) =>
                    (Recorded(i) /\ results[i].Success /\ results[i].Error = Nil)
              /\ (Verified(issued[i]) /\ ~KeepTarballs) => Deleted(issued[i])

C17_Witness ==
    \E i \in Nodes :
        /\ pc[i] = "done"
        /\ ~KeepTarballs
        /\ Deleted(issued[i])
        /\ issued[i][Len(issued[i])] = [op |-> "cleanup", ok |-> FALSE]
        /\ results[i].Success

\* The workers whose probe failed, by the log of the probes.
Unreachable == {i \in DOMAIN probeLog : probeLog[i].status # "ok"}

\* C14: when TestConnectivity returns it has probed every worker once, in
\* order; each Reachable flag is the outcome of the worker's own probe; the
\* returned error is non-nil exactly when a probe failed; and it names every
\* unreachable worker once, with the cause of its probe, and no other worker.
C14_ConnectivityVerdict ==
    tcErr.called =>
        /\ Len(probeLog) = Len(workers)
        /\ \A i \in Nodes : probeLog[i].node = workers[i]
        /\ \A i \in Nodes : Reachable[i] <=> probeLog[i].status = "ok"
        /\ (tcErr.unreachable # <<>>) <=> (Unreachable # {})
        /\ Len(tcErr.unreachable) = Cardinality(Unreachable)
        /\ {tcErr.unreachable[k] : k \in DOMAIN tcErr.unreachable} =
              {FailureLine(workers[i], ExecError([status |-> probeLog[i].status])) :
                  i \in Unreachable}
        /\ \A i \in Unreachable : LastError[i] = ExecError([status |-> probeLog[i].status])

C14_Witness ==
    /\ tcErr.called
    /\ Len(workers) = 2
    /\ probeLog[1].status = "timeout" /\ ~Reachable[1]
    /\ probeLog[2].status = "ok" /\ Reachable[2]
    /\ tcErr.unreachable = <<FailureLine(workers[1], RawErr("command timeout"))>>

\* C15: without --skip-import, once TestConnectivity has reported a worker
\* unreachable runDeploy has returned the connectivity error: no image is
\* exported, DistributeToAllWorkers is not invoked and no manifest is
\* applied; each of these happens only with every worker found reachable.
C15_AbortBeforeTransfer ==
    ~skipImport =>
        /\ (tcErr.called /\ tcErr.unreachable # <<>>) =>
              /\ dpc = "returned"
              /\ deployRet = "SSH connectivity test failed"
              /\ exported = {} /\ distCalls = 0 /\ ~applied
              /\ \A i \in Nodes : tasks[i] = "idle"
        /\ (exported # {} \/ distCalls > 0 \/ applied) =>
              (tcErr.called /\ \A i \in Nodes : Reachable[i])

C15_Witness ==
    /\ ~skipImport
    /\ Len(workers) = 2
    /\ Reachable[1] /\ ~Reachable[2]
    /\ LastError[2] = RawErr("SSH dial failed")
    /\ dpc = "returned"
    /\ deployRet = "SSH connectivity test failed"

\* C16 as stated: without --skip-import the manifests are applied only after
\* the audit has found the image of every component on all the workers.
C16_Original ==
    (applied /\ ~skipImport) => \A c \in Components : audited[c] = Nodes

\* C16 amended: without --skip-import the manifests are applied only after
\* the audit has gone through every worker for every component and found
\* the image of each component on at least MinWorkers workers, on all of
\* them when MinWorkers = 0.
C16_Amended ==
    ((applied \/ dpc = "apply") /\ ~skipImport) =>
        /\ auditIdx = 0 /\ comp = Cardinality(Components)
        /\ \A c \in Components :
              /\ Cardinality(audited[c]) >=
                    (IF MinWorkers = 0 THEN Len(workers) ELSE MinWorkers)
              /\ MinWorkers = 0 => audited[c] = Nodes

C16_Witness ==
    /\ applied /\ ~skipImport
    /\ Len(workers) = 2
    /\ MinWorkers = 1
    /\ audited[1] = {2}
    /\ audited[2] = {1}

\* C18: Reachable and LastError change only in a step of TestConnectivity,
\* while no distribution task exists; a task exists only after
\* TestConnectivity has gone through every worker and returned.
C18_WorkerFieldsFrame ==
    /\ [][(Reachable' # Reachable \/ LastError' # LastError) =>
            /\ dpc = "connectivity" /\ dpc' = "connectivity"
            /\ distCalls = 0
            /\ \A n \in Nodes : tasks[n] = "idle"]_vars
    /\ [](\A n \in Nodes :
            tasks[n] # "idle" => (tcErr.called /\ probed = Len(workers)))

C18_Witness ==
    /\ Len(workers) = 2
    /\ comp = 2
    /\ tasks[1] = "running" /\ tasks[2] = "failed"
    /\ \A i \in Nodes : Reachable[i] /\ LastError[i] = Nil

\* C19: once a DistributeToWorker call has succeeded on a worker, the check
\* of VerifyImportOnWorker passes on the worker's image listing at every
\* later moment: before, during and after every further call on it, however
\* the steps of those calls end.
C19_Idempotent ==
    nok => VerifyImportOnWorker(Listing(images)) = Nil

C19_Witness ==
    /\ nok
    /\ ncalls = 2
    /\ npc = "idle"
    /\ nres.present /\ ~nres.Success
    /\ nres.Error.annot = "import failed"
    /\ VerifyImportOnWorker(Listing(images)) = Nil

\* C20: WithRetry invokes the operation one call after the other, at most
\* MaxRetries times and never again after a success; it returns nil exactly
\* when the latest invocation succeeded, and a non-nil error exactly when
\* MaxRetries invocations have been made and every one of them failed.
C20_WithRetry ==
    /\ Len(rlog) <= MaxRetries
    /\ \A k \in 1..(Len(rlog) - 1) : rlog[k] # "nil"
    /\ (rlog # <<>> /\ rlog[Len(rlog)] = "nil") =>
          (rret.called /\ rret.nil /\ ~ENABLED RetryNext)
    /\ rret.called =>
          /\ rret.nil <=> (rlog # <<>> /\ rlog[Len(rlog)] = "nil")
          /\ ~rret.nil =>
                /\ Len(rlog) = MaxRetries
                /\ \A k \in 1..Len(rlog) : rlog[k] # "nil"
                /\ rret.cause = (IF rlog = <<>> THEN "nil" ELSE rlog[Len(rlog)])
    /\ (Len(rlog) = MaxRetries /\ rpc = "returned") => rret.called

C20_Witness ==
    /\ MaxRetries = 3
    /\ rlog = <<"refused", "reset", "nil">>
    /\ rret.called /\ rret.nil

\* C24: for each node an attempt starts only at the transfer position; the
\* first attempt starts straight after the slot is taken with no delay
\* before it, every later attempt starts out of the delay, and the delay is
\* entered only by a step of the running attempt that failed; all earlier
\* attempts have returned when one starts, and no step follows a success.
C24_SequentialRetries ==
    /\ [](\A n \in Nodes :
            /\ pc[n] = "sleep" =>
                  (attempt[n] > 1 /\ calls[n] = attempt[n] - 1 /\ lastErr[n] # Nil)
            /\ pc[n] = "transfer" => calls[n] = attempt[n] - 1
            /\ pc[n] \in {"import", "verify", "cleanup", "blocked"} =>
                  calls[n] = attempt[n])
    /\ [][\A n \in Nodes :
            /\ (pc'[n] = "transfer" /\ pc[n] # "transfer") =>
                  \/ pc[n] = "acquire" /\ attempt'[n] = 1 /\ calls[n] = 0
                  \/ pc[n] = "sleep" /\ attempt[n] > 1
            /\ (pc'[n] = "sleep" /\ pc[n] # "sleep") =>
                  /\ pc[n] \in {"transfer", "import", "verify"}
                  /\ lastErr'[n] # Nil
                  /\ attempt'[n] = attempt[n] + 1
            /\ calls'[n] # calls[n] =>
                  (pc[n] = "transfer" /\ calls'[n] = attempt[n])
            /\ pc[n] = "done" => (pc'[n] = "done" /\ calls'[n] = calls[n])]_vars

C24_Witness ==
    \E n \in Nodes :
        /\ pc[n] = "transfer"
        /\ attempt[n] = 2
        /\ calls[n] = 1
        /\ lastErr[n].cause = "image not found in containerd"

\* C25: after the slice is made a slot changes only in the step by which
\* the task of the node at that index ends, and only from nil to its result,
\* so it is written once and by its own task; the success count is taken
\* only when every task has ended and every slot is written.
C25_SingleWriter ==
    /\ [][\A i \in Nodes :
            (mainpc # "idle" /\ results'[i] # results[i]) =>
                /\ pc[i] \in InFlight \cup {"acquire"} /\ pc'[i] = "done"
                /\ results[i] = NoResult
                /\ results'[i].present /\ results'[i].Worker = workers[i]
                /\ \A j \in Nodes \ {i} : results'[j] = results[j]]_vars
    /\ [][mainpc' # mainpc /\ mainpc' = "returned" =>
            \A i \in Nodes : pc[i] = "done" /\ results[i].present]_vars

C25_Witness ==
    /\ Returned
    /\ Len(workers) = 2
    /\ Parallel = 2
    /\ results[1].Success /\ results[2].Success
    /\ calls[1] = 2 /\ calls[2] = 1

\* C26 as stated: whenever every node's pipeline has succeeded the call
\* returns nil, for every MinWorkers.
C26_Original ==
    (Returned /\ Succeeded = Nodes) => retErr = "nil"

\* C26 amended: when every node's pipeline has succeeded the call returns
\* nil if MinWorkers <= len(workers) (0 included), and the quorum error if
\* MinWorkers > len(workers).
C26_Amended ==
    (Returned /\ Succeeded = Nodes) =>
        /\ MinWorkers <= Len(workers) => (retErr = "nil" /\ report = "success")
        /\ MinWorkers > Len(workers) => retErr = "quorum"

C26_Witness ==
    /\ Returned
    /\ Len(workers) = 2
    /\ Succeeded = Nodes
    /\ MinWorkers = 2
    /\ retErr = "nil"

\* C27 as stated: every returned result with Success = false has a non-nil
\* Error and every result with Success = true a nil Error, for every
\* RetryCount >= 0.
C27_ErrorMatchesSuccess ==
    Returned =>
        \A i \in Nodes : results[i].Success <=> (results[i].Error = Nil)

\* C28: the number of slots held equals the number of tasks that have taken
\* a slot and not ended; a task holds its slot through every attempt and
\* delay; a step takes or gives back at most one slot, taking it only on
\* entry and giving it back only with the step that ends the task; no slot
\* is held when the call returns.
C28_SlotAccounting ==
    /\ sem = Cardinality({n \in Nodes : pc[n] \in InFlight})
    /\ sem <= Parallel
    /\ wg = Cardinality({n \in Nodes : pc[n] \in InFlight \cup {"acquire"}})
    /\ Returned => sem = 0

C28_Witness ==
    /\ Len(workers) = 2
    /\ Parallel = 2
    /\ sem = 1
    /\ pc[1] = "done" /\ ~results[1].Success
    /\ pc[2] = "sleep" /\ attempt[2] = 2

\* The verification step of the running call found the image.
VerifyPassed == npc = "verify" /\ (npc' = "cleanup" \/ (npc' = "idle" /\ nres'.Success))

\* The running call ends with the error of the given step and cause.
EndsWith(step, cause) ==
    /\ npc' = "idle" /\ npc # "idle"
    /\ ~nres'.Success
    /\ nres'.Error = Annotate(step, RawErr(cause))

\* C23 as stated: VerifyImportOnWorker returns nil only if the target
\* reference is itself one of the references the worker lists (a listed
\* reference that merely contains it does not count), and returns the
\* not-found error only if the target is not among them.
C23_ExactReference ==
    [][/\ VerifyPassed => ImageName \in images
       /\ EndsWith("verification failed", "image not found in containerd") =>
             ImageName \notin images]_vars

\* C29: the delete of the remote archive is issued only with KeepTarballs
\* unset and only after the verification of the same call passed; a passed
\* verification is followed by the delete exactly when KeepTarballs is
\* unset; the archive disappears only by that delete, so a call that ends
\* with a size mismatch, an import failure or a verification failure
\* leaves the archive on the worker.
C29_DeleteOnlyOnSuccess ==
    /\ [](npc = "cleanup" => ~KeepTarballs)
    /\ [][/\ (npc' = "cleanup" /\ npc # "cleanup") => VerifyPassed
          /\ VerifyPassed => (npc' = "cleanup" <=> ~KeepTarballs)
          /\ (npc' = "idle" /\ npc # "idle" /\ nres'.Success) =>
                (npc = "cleanup" <=> ~KeepTarballs)
          /\ tarball' # tarball /\ tarball' = "absent" => npc = "cleanup"
          /\ (\/ EndsWith("SCP failed", "size mismatch")
              \/ EndsWith("SCP failed", "cannot verify remote file")
              \/ \E o \in ImportOutcomes \ {"ok"} :
                    EndsWith("import failed", importOnWorker(o).cause)
              \/ \E o \in VerifyOutcomes \ {"listed"} :
                    EndsWith("verification failed", VerifyImportOnWorker(o).cause))
             => tarball' = "present"]_vars
    /\ []((/\ npc = "idle" /\ nres.present /\ ~nres.Success
           /\ nres.Error.annot \in {"import failed", "verification failed"})
          => tarball = "present")

\* A call on a worker that had no archive has ended with a failed
\* verification and the archive is there; an earlier call had succeeded.
C29_Witness ==
    /\ npc = "idle"
    /\ ~KeepTarballs
    /\ ncalls = 2
    /\ nok
    /\ nres.present /\ ~nres.Success
    /\ nres.Error = Annotate("verification failed", RawErr("failed to list images"))
    /\ tarball = "present"

\* C21: with a non-empty WorkerIPs list GetWorkerNodes returns, with a nil
\* error, one node per address of the list in list order, the node at
\* position i (from 1) named worker-<i> and carrying that address, and
\* kubectl is never run.
C21_ManualList ==
    (found.called /\ Len(WorkerIPs) > 0) =>
        /\ found.err = Nil
        /\ Len(found.workers) = Len(WorkerIPs)
        /\ \A i \in 1..Len(WorkerIPs) :
              /\ found.workers[i].IP = WorkerIPs[i]
              /\ found.workers[i].Name = <<"worker-", ToString(i)>>
        /\ kubectl = "none"
        /\ ~ipsRet.called

\* The same address is named twice and gives two nodes.
C21_Witness ==
    /\ found.called
    /\ Len(WorkerIPs) = 2
    /\ WorkerIPs[1] = WorkerIPs[2]
    /\ Len(cluster) = 1
    /\ found.workers[2].Name = <<"worker-", "2">>

\* The node carries neither of the role labels.
NoRoleLabel(node) == node.labels \cap {RoleControlPlane, RoleMaster} = {}

\* C22 as stated: with no manual list, a node query that succeeds returns
\* one node for each item of the list that carries no role label, in the
\* list's order and with an InternalIP address of that item, and none for
\* the items with a role label; the no-workers error is returned exactly
\* when no item is without a role label; a node query that fails gives an
\* error of the query.
C22_Discovery ==
    (found.called /\ Len(WorkerIPs) = 0) =>
        LET U == SelectSeq(cluster, NoRoleLabel) IN
        /\ kubectl # "none"
        /\ kubectl # "ok" =>
              /\ found.err # Nil
              /\ found.err.cause \in {"failed to get nodes",
                                      "failed to parse node list JSON"}
        /\ kubectl = "ok" =>
              IF U = <<>>
              THEN found.err # Nil /\ found.err.cause = "no worker nodes found in cluster"
              ELSE /\ found.err = Nil
                   /\ Len(found.workers) = Len(U)
                   /\ \A j \in 1..Len(U) :
                         \E k \in 1..Len(U[j].addrs) :
                            /\ U[j].addrs[k].Type = "InternalIP"
                            /\ found.workers[j].IP = U[j].addrs[k].Address

\* C30: once started, the goroutine of sshExecWithContext gets to the end:
\* its send on done never has to wait (the buffer is free when it sends),
\* it exits also when the caller has returned on the deadline and the value
\* stays in the channel for ever; the caller's return on the deadline is the
\* empty output with the timeout error, whatever output and err hold then.
C30_GoroutineExits ==
    /\ (gpc = "running") ~> (gpc = "exited")
    /\ [](gpc = "send" => Len(done) < 1)
    /\ [](Len(done) <= 1)
    /\ [][(epc = "select" /\ epc' = "ret" /\ killed') =>
             /\ execRet' = Returns(NoOutput, RawErr("command timeout"))
             /\ output' = output /\ cerr' = cerr]_vars

\* The caller returned on the deadline; the goroutine came back from the
\* closed session afterwards, sent, and exited; nobody receives the value.
C30_Witness ==
    /\ epc = "ret"
    /\ killed
    /\ execRet = Returns(NoOutput, RawErr("command timeout"))
    /\ gpc = "exited"
    /\ done = <<RawErr("session closed")>>

====
